---- MODULE Spec2Model ----
(***************************************************************************)
(* Ditherum: palette handling (src/src/palette.rs, src/src/color.rs) and   *)
(* the generic k-means centroid finder (src/src/algorithms/kmean.rs).      *)
(*                                                                         *)
(* Colours are 8-bit RGB triples.  The Lab representation comes from the   *)
(* external `palette` crate; it is modelled as a fixed-point linear        *)
(* opponent transform of the channels (lightness = luma, a = red-green,    *)
(* b = green-blue), kept in units of 1/LabScale.  Like the f32 lightness   *)
(* of the crate, the modelled lightness is not injective on colours.       *)
(***************************************************************************)
EXTENDS Integers, Sequences, FiniteSets, TLC

\* ------------------------------------------------------------------------
\* Bounds of the model
\* ------------------------------------------------------------------------
MaxItems == 3          \* longest input handed to find_centroids / From<Vec>
MaxPaletteLen == 4     \* longest palette that combine may build
MaxGraySteps == 3      \* largest argument of grayscale()
MaxImageWidth == 3     \* widest image handed to ImageProcessor
MaxImageHeight == 2    \* tallest image handed to ImageProcessor
MaxGridWidth == 3      \* widest grid handed to apply_2x2_kernel_processing
MaxGridHeight == 3     \* tallest grid handed to apply_2x2_kernel_processing
MaxOps == 2            \* combine / try_reduce calls applied to one constructed palette

\* ------------------------------------------------------------------------
\* Program constants
\* ------------------------------------------------------------------------
ChanMax == 255                      \* u8::MAX
ITERATION_MAX_COUNT == 120
CONVERGE_THRESHOLD == 5             \* 0.05, in hundredths
CONVERGE_ENOUGH_THRESHOLD == 80     \* 0.8, in hundredths
LabScale == 6                       \* fixed-point denominator of Lab values

\* ------------------------------------------------------------------------
\* Small helpers
\* ------------------------------------------------------------------------
Range(s) == {s[i] : i \in 1..Len(s)}

Abs(x) == IF x < 0 THEN -x ELSE x

SeqsUpTo(S, n) == UNION {[1..m -> S] : m \in 0..n}

\* all orders in which the elements of a finite set can be iterated
Orders(S) == {p \in [1..Cardinality(S) -> S] : Range(p) = S}

\* ------------------------------------------------------------------------
\* color.rs : ColorRGB
\* ------------------------------------------------------------------------
ColorRGB(r, g, b) == <<r, g, b>>

Black == ColorRGB(0, 0, 0)
White == ColorRGB(255, 255, 255)
Red   == ColorRGB(255, 0, 0)
Green == ColorRGB(0, 255, 0)
Blue  == ColorRGB(0, 0, 255)

\* colours that images, vectors and JSON files are drawn from
InputColors == {ColorRGB(0, 0, 1), ColorRGB(1, 0, 0), ColorRGB(1, 0, 1), ColorRGB(0, 0, 2)}

\* Lab value: l, a, b in units of 1/LabScale; nan marks the f32 NaN triple
Lab(l, a, b) == [l |-> l, a |-> a, b |-> b, nan |-> FALSE]

LabNaN == [l |-> 0, a |-> 0, b |-> 0, nan |-> TRUE]

\* impl From<ColorRGB> for palette::Lab
to_lab(c) ==
    Lab(LabScale * (2 * c[1] + 7 * c[2] + c[3]),
        LabScale * (c[1] - c[2]),
        LabScale * (c[2] - c[3]))

\* (value * 255.0).round().clamp(0.0, 255.0) as u8, for value = num/den of a channel step
RoundClampU8(num, den) ==
    LET rounded == (2 * num + den) \div (2 * den)
    IN  IF rounded < 0 THEN 0 ELSE IF rounded > ChanMax THEN ChanMax ELSE rounded

\* impl From<palette::Lab> for ColorRGB (NaN as u8 is 0)
from_lab(v) ==
    IF v.nan THEN ColorRGB(0, 0, 0)
    ELSE ColorRGB(RoundClampU8(v.l + 8 * v.a + v.b, 10 * LabScale),
                  RoundClampU8(v.l - 2 * v.a + v.b, 10 * LabScale),
                  RoundClampU8(v.l - 2 * v.a - 9 * v.b, 10 * LabScale))

\* impl Ord for ColorRGB: compares the Lab lightness only
ColorCmpLessEq(x, y) == to_lab(x).l <= to_lab(y).l

\* ------------------------------------------------------------------------
\* algorithms/kmean.rs : find_centroids<T, D, M> and the closures handed to it
\* ------------------------------------------------------------------------
MULTITHREADE_ITEMS_COUNT_THRESHOLD == 50

num_cpus == 2          \* num_cpus::get() of the machine

DistNaN == -1          \* the f32 NaN as a distance (real distances are >= 0)

Min(x, y) == IF x < y THEN x ELSE y

\* lab_distance_measure: a.difference(*b), in hundredths
lab_distance_measure(x, y) ==
    IF x.nan \/ y.nan THEN DistNaN
    ELSE (4 * (Abs(x.l - y.l) + Abs(x.a - y.a) + Abs(x.b - y.b))) \div LabScale

RECURSIVE LabSum(_)
LabSum(arr) ==
    IF arr = <<>> THEN Lab(0, 0, 0)
    ELSE LET rest == LabSum(Tail(arr))
         IN  Lab(rest.l + Head(arr).l, rest.a + Head(arr).a, rest.b + Head(arr).b)

\* calculate_lab_mean: the accumulator divided by arr.len(); 0.0 / 0.0 is NaN
calculate_lab_mean(arr) ==
    IF Len(arr) = 0 THEN LabNaN
    ELSE LET acc == LabSum(arr)
         IN  Lab(acc.l \div Len(arr), acc.a \div Len(arr), acc.b \div Len(arr))

\* T = f32: a value in hundredths, or NaN
F32(v) == [v |-> v, nan |-> FALSE]

F32NaN == [v |-> 0, nan |-> TRUE]

\* a caller's distance closure over f32 angles: the shorter way round a circle
\* of the given period, |a, b| { let d = (a - b).abs(); d.min(period - d) }
circular_distance(period, x, y) ==
    IF x.nan \/ y.nan THEN DistNaN
    ELSE Min(Abs(x.v - y.v), period - Abs(x.v - y.v))

RECURSIVE F32Sum(_)
F32Sum(arr) == IF arr = <<>> THEN 0 ELSE Head(arr).v + F32Sum(Tail(arr))

\* the mean closure of the tests: arr.iter().sum::<f32>() / arr.len() as f32
arithmetic_mean(arr) ==
    IF Len(arr) = 0 THEN F32NaN ELSE F32(F32Sum(arr) \div Len(arr))

\* the closures as values: what is handed in as distance_measure / calculate_mean
LabDifference == [fn |-> "lab_distance_measure", period |-> 0]

CircularDistance(period) == [fn |-> "circular_distance", period |-> period]

NoClosure == [fn |-> "none", period |-> 0]

\* distance_measure(x, y)
CallDistance(distance_fn, x, y) ==
    IF distance_fn.fn = "lab_distance_measure" THEN lab_distance_measure(x, y)
    ELSE circular_distance(distance_fn.period, x, y)

\* calculate_mean(arr)
CallMean(mean_fn, arr) ==
    IF mean_fn = "calculate_lab_mean" THEN calculate_lab_mean(arr) ELSE arithmetic_mean(arr)

Ok(v) == [tag |-> "Ok", value |-> v, expected |-> 0, actual |-> 0]

Err(t, e, a) == [tag |-> t, value |-> <<>>, expected |-> e, actual |-> a]

NoResult == Err("none", 0, 0)

Panic == Err("panic", 0, 0)

validate_input_NoEmptyCheck(items, k) ==
    IF Len(items) < k THEN Err("TooManyCentroids", k, Len(items))
    ELSE Ok(<<>>)

validate_input_SwappedFields(items, k) ==
    IF Len(items) = 0 THEN Err("InputEmpty", 0, 0)
    ELSE IF Len(items) < k THEN Err("TooManyCentroids", Len(items), k)
    ELSE Ok(<<>>)

validate_input(items, k) ==
    IF Len(items) = 0 THEN Err("InputEmpty", 0, 0)
    ELSE IF Len(items) < k THEN Err("TooManyCentroids", k, Len(items))
    ELSE Ok(<<>>)

\* Iterator::min_by as a fold over the enumerated distances: the element kept so
\* far is replaced only by a strictly smaller one, so the first minimum wins
RECURSIVE min_by(_, _, _, _, _)
min_by(item, cs, distance_fn, i, best) ==
    IF i > Len(cs) THEN best
    ELSE IF CallDistance(distance_fn, item, cs[i]) < CallDistance(distance_fn, item, cs[best])
         THEN min_by(item, cs, distance_fn, i + 1, i)
         ELSE min_by(item, cs, distance_fn, i + 1, best)

\* of several equally close centroids the last one is taken
find_closest_centroid_idx_LastMinimum(item, cs, distance_fn) ==
    IF Len(cs) = 0 THEN 0
    ELSE IF Len(cs) > 1 /\ \E i \in 1..Len(cs) : CallDistance(distance_fn, item, cs[i]) = DistNaN
    THEN 0
    ELSE CHOOSE i \in 1..Len(cs) : \A j \in 1..Len(cs) :
            /\ CallDistance(distance_fn, item, cs[i]) <= CallDistance(distance_fn, item, cs[j])
            /\ (j > i => CallDistance(distance_fn, item, cs[i]) < CallDistance(distance_fn, item, cs[j]))

\* the index of the closest centroid, 1-based; 0 stands for a panic (unwrap of
\* None on no centroid, or partial_cmp of a NaN distance)
find_closest_centroid_idx(item, cs, distance_fn) ==
    IF Len(cs) = 0 THEN 0
    ELSE IF Len(cs) > 1 /\ \E i \in 1..Len(cs) : CallDistance(distance_fn, item, cs[i]) = DistNaN
    THEN 0
    ELSE min_by(item, cs, distance_fn, 2, 1)

\* the loop of get_filled_batch_cluster from item n on: each item is pushed to
\* the cluster of its closest centroid
RECURSIVE push_to_closest(_, _, _, _, _)
push_to_closest(input_batch, cs, distance_fn, n, batch_clusters) ==
    IF n > Len(input_batch) THEN batch_clusters
    ELSE push_to_closest(input_batch, cs, distance_fn, n + 1,
            [batch_clusters EXCEPT ![find_closest_centroid_idx(input_batch[n], cs, distance_fn)] =
                Append(@, input_batch[n])])

get_filled_batch_cluster(input_batch, cs, distance_fn) ==
    push_to_closest(input_batch, cs, distance_fn, 1, [i \in 1..Len(cs) |-> <<>>])

\* some item makes find_closest_centroid_idx panic
AssignmentPanics(items, cs, distance_fn) ==
    \E n \in 1..Len(items) : find_closest_centroid_idx(items[n], cs, distance_fn) = 0

\* the last worker takes a chunk like the others: the remainder is left out
WorkerRange_DropsRemainder(work_len, worker_count, worker_idx) ==
    LET work_chunk_len == work_len \div worker_count
        from_idx == worker_idx * work_chunk_len
    IN  <<from_idx, from_idx + work_chunk_len>>

\* the chunk of worker worker_idx (0-based) as a pair of 0-based bounds from..to
WorkerRange(work_len, worker_count, worker_idx) ==
    LET work_chunk_len == work_len \div worker_count
        from_idx == worker_idx * work_chunk_len
    IN  <<from_idx, IF worker_idx = worker_count - 1 THEN work_len ELSE from_idx + work_chunk_len>>

\* &input[range.start..range.end] of worker worker_idx
WorkerBatch(items, worker_count, worker_idx) ==
    SubSeq(items, WorkerRange(Len(items), worker_count, worker_idx)[1] + 1,
           WorkerRange(Len(items), worker_count, worker_idx)[2])

\* the merge loop from partial result n on: every cluster is extended with the
\* worker's partial cluster of the same index
RECURSIVE MergePartial(_, _, _)
MergePartial(all_clusters, n, merged) ==
    IF n > Len(all_clusters) THEN merged
    ELSE MergePartial(all_clusters, n + 1,
            [cluster_idx \in 1..Len(merged) |-> merged[cluster_idx] \o all_clusters[n][cluster_idx]])

\* the scope of get_filled_cluster_multithreaded run on worker_count workers:
\* every worker fills the clusters of its chunk, the results are joined in the
\* order of the handlers and merged
get_filled_cluster_on_workers(items, cs, distance_fn, worker_count) ==
    MergePartial([w \in 1..worker_count |->
                     get_filled_batch_cluster(WorkerBatch(items, worker_count, w - 1), cs,
                                              distance_fn)],
                 1, [i \in 1..Len(cs) |-> <<>>])

get_filled_cluster_multithreaded(items, cs, distance_fn) ==
    get_filled_cluster_on_workers(items, cs, distance_fn, num_cpus)

create_clusters_assignment(items, cs, distance_fn) ==
    IF Len(items) > MULTITHREADE_ITEMS_COUNT_THRESHOLD /\ num_cpus > 1
    THEN get_filled_cluster_multithreaded(items, cs, distance_fn)
    ELSE get_filled_batch_cluster(items, cs, distance_fn)

\* one pair below the threshold is enough
check_converges_AnyPair(last, recent, distance_threshold, distance_fn) ==
    \E i \in 1..Min(Len(last), Len(recent)) :
        /\ CallDistance(distance_fn, last[i], recent[i]) # DistNaN
        /\ CallDistance(distance_fn, last[i], recent[i]) < distance_threshold

\* zip of the two centroid lists; NaN < threshold is false
check_converges(last, recent, distance_threshold, distance_fn) ==
    \A i \in 1..Min(Len(last), Len(recent)) :
        /\ CallDistance(distance_fn, last[i], recent[i]) # DistNaN
        /\ CallDistance(distance_fn, last[i], recent[i]) < distance_threshold

create_centroids_from_clusters_SkipEmpty(cl, mean_fn) ==
    LET filled == SelectSeq(cl, LAMBDA c : Len(c) > 0)
    IN  [i \in 1..Len(filled) |-> CallMean(mean_fn, filled[i])]

create_centroids_from_clusters(cl, mean_fn) ==
    [i \in 1..Len(cl) |-> CallMean(mean_fn, cl[i])]

\* the relaxed check is already made in the pass that reaches the cap
cap_exceeded_AtCap(count) == count >= ITERATION_MAX_COUNT

\* if iterations_count > ITERATION_MAX_COUNT
cap_exceeded(count) == count > ITERATION_MAX_COUNT

IsTrivialCase_Never(items, k) == FALSE

\* input.len() == centroids_count: the input is returned as it is
IsTrivialCase(items, k) == Len(items) = k

\* choose_multiple(&mut rng, k): k distinct positions of the input, in any order
Samples(n, k) ==
    {p \in [1..k -> 1..n] : \A i, j \in 1..k : i # j => p[i] # p[j]}

\* ------------------------------------------------------------------------
\* palette.rs : PaletteRGB
\* ------------------------------------------------------------------------

\* x goes behind every entry that is not greater than it
RECURSIVE InsertSorted(_, _)
InsertSorted(x, s) ==
    IF s = <<>> THEN <<x>>
    ELSE IF ColorCmpLessEq(Head(s), x) THEN <<Head(s)>> \o InsertSorted(x, Tail(s))
    ELSE <<x>> \o s

\* Vec::sort(): the stable sort under Ord for ColorRGB
RECURSIVE sort(_)
sort(s) ==
    IF s = <<>> THEN <<>>
    ELSE InsertSorted(s[Len(s)], sort(SubSeq(s, 1, Len(s) - 1)))

\* Vec::dedup(): removes consecutive repeated entries
RECURSIVE dedup(_)
dedup(s) ==
    IF Len(s) <= 1 THEN s
    ELSE IF s[1] = s[2] THEN dedup(Tail(s))
    ELSE <<s[1]>> \o dedup(Tail(s))

\* impl From<HashSet<T>> for PaletteRGB: the set in its iteration order, sorted
FromHashSet(S) == {sort(o) : o \in Orders(S)}

\* impl From<Vec<T>> for PaletteRGB: collected into a HashSet, then as above
FromVec(v) == FromHashSet(Range(v))

black_and_white == FromVec(<<Black, White>>)

primary == FromVec(<<Red, Green, Blue>>)

primary_bw == FromVec(<<Black, Red, Green, Blue, White>>)

\* grayscale(steps), for steps >= 2
grayscale(steps) ==
    [n \in 1..steps |->
        LET channel_value == (255 * (n - 1)) \div (steps - 1)
        IN  ColorRGB(channel_value, channel_value, channel_value)]

\* combine: append, dedup, sort
combine(self, o) == sort(dedup(self \o o))

\* self.len().cmp(&target_colors_count)
CmpLen_EqualAsGreater(len, target) ==
    IF len < target THEN "Less" ELSE "Greater"

CmpLen(len, target) ==
    IF len < target THEN "Less" ELSE IF len = target THEN "Equal" ELSE "Greater"

NotEnoughColors_Swapped(target, len) == Err("NotEnoughColors", len, target)

NotEnoughColors(target, len) == Err("NotEnoughColors", target, len)

\* impl From<PaletteRGB> for Vec<palette::Lab>
PaletteToLab(p) == [i \in 1..Len(p) |-> to_lab(p[i])]

\* ------------------------------------------------------------------------
\* image.rs, algorithms/thresholding.rs : images and nearest-colour substitution
\* ------------------------------------------------------------------------
\* colours of the pixels of input images
PixelColors == {ColorRGB(100, 100, 100), ColorRGB(200, 30, 30)}

\* image::RgbImage: width, height and the pixels as rows (row y, then column x)
RgbImage(w, h, rows) == [width |-> w, height |-> h, pixels |-> rows]

NoImage == RgbImage(0, 0, <<>>)

\* every image of at most MaxImageWidth x MaxImageHeight pixels
Images ==
    UNION {{RgbImage(w, h, rows) : rows \in [1..h -> [1..w -> PixelColors]]} :
            w \in 0..MaxImageWidth, h \in 0..MaxImageHeight}

\* palettes handed to ImageProcessor::new
ImagePalettes ==
    {<<>>, <<ColorRGB(200, 30, 30)>>, grayscale(3)} \cup black_and_white \cup primary
        \cup FromVec(<<ColorRGB(100, 100, 100), ColorRGB(200, 30, 30)>>)

\* ColorRGB::dist_squared_by_rgb
dist_squared_by_rgb(c, d) ==
    (c[1] - d[1]) * (c[1] - d[1]) + (c[2] - d[2]) * (c[2] - d[2]) + (c[3] - d[3]) * (c[3] - d[3])

\* ColorRGB::dist_by_lab
dist_by_lab(c, d) == lab_distance_measure(to_lab(c), to_lab(d))

\* Iterator::min_by over a sequence of distances: the position of the first minimum
RECURSIVE first_min_idx(_, _, _)
first_min_idx(dists, i, best) ==
    IF i > Len(dists) THEN best
    ELSE IF dists[i] < dists[best] THEN first_min_idx(dists, i + 1, i)
         ELSE first_min_idx(dists, i + 1, best)

\* the last of several equally close entries is returned
find_closest_by_rgb_LastMinimum(p, src_color) ==
    p[CHOOSE i \in 1..Len(p) : \A j \in 1..Len(p) :
        /\ dist_squared_by_rgb(src_color, p[i]) <= dist_squared_by_rgb(src_color, p[j])
        /\ (j > i => dist_squared_by_rgb(src_color, p[i]) < dist_squared_by_rgb(src_color, p[j]))]

find_closest_by_rgb_ReturnsSource(p, src_color) == src_color

\* PaletteRGB::find_closest_by_rgb on a non-empty palette
find_closest_by_rgb(p, src_color) ==
    p[first_min_idx([i \in 1..Len(p) |-> dist_squared_by_rgb(src_color, p[i])], 2, 1)]

\* PaletteRGB::find_closest_by_lab on a non-empty palette
find_closest_by_lab(p, src_color) ==
    p[first_min_idx([i \in 1..Len(p) |-> dist_by_lab(src_color, p[i])], 2, 1)]

\* min_by(...).unwrap() panics when the palette is empty and a pixel is looked up
ClosestPanics(img, p) == Len(p) = 0 /\ img.width > 0 /\ img.height > 0

\* thresholding_rgb: every pixel replaced in place by its closest palette colour
thresholding_rgb(img, p) ==
    RgbImage(img.width, img.height,
             [yy \in 1..img.height |-> [xx \in 1..img.width |->
                 find_closest_by_rgb(p, img.pixels[yy][xx])]])

\* thresholding_lab
thresholding_lab(img, p) ==
    RgbImage(img.width, img.height,
             [yy \in 1..img.height |-> [xx \in 1..img.width |->
                 find_closest_by_lab(p, img.pixels[yy][xx])]])

\* ------------------------------------------------------------------------
\* algorithms/dithering.rs : Floyd-Steinberg diffusion on palette::Srgb values
\* ------------------------------------------------------------------------
SrgbScale == 18        \* fixed-point denominator: an Srgb channel is u8 * SrgbScale

\* a weight triple whose sum is above 1
err_weights_Overshoot == <<9, 5, 5>>

err_weights == <<9, 5, 4>>      \* 9/18, 5/18, 4/18

\* color::manip::rgbu8_to_srgb
rgbu8_to_srgb(c) == <<SrgbScale * c[1], SrgbScale * c[2], SrgbScale * c[3]>>

\* color::manip::srgb_to_rgbu8: * 255, round, clamp
srgb_to_rgbu8(v) ==
    ColorRGB(RoundClampU8(v[1], SrgbScale), RoundClampU8(v[2], SrgbScale),
             RoundClampU8(v[3], SrgbScale))

\* PaletteRGB::to_srgb
to_srgb(p) == [i \in 1..Len(p) |-> rgbu8_to_srgb(p[i])]

srgb_add(left, right) == <<left[1] + right[1], left[2] + right[2], left[3] + right[3]>>

srgb_sub(left, right) == <<left[1] - right[1], left[2] - right[2], left[3] - right[3]>>

\* the scalar is weight / 18; the product is rounded down to the fixed-point grid
srgb_mul_scalar(left, weight) ==
    <<(left[1] * weight) \div 18, (left[2] * weight) \div 18, (left[3] * weight) \div 18>>

\* Srgb::distance_squared
srgb_distance_squared(c, d) == dist_squared_by_rgb(c, d)

\* max_by in place of min_by: the entry farthest from the colour
find_closest_srgb_color_Farthest(srgb_color, p) ==
    p[CHOOSE i \in 1..Len(p) : \A j \in 1..Len(p) :
        srgb_distance_squared(srgb_color, p[i]) >= srgb_distance_squared(srgb_color, p[j])]

\* color::manip::find_closest_srgb_color on a non-empty palette
find_closest_srgb_color(srgb_color, p) ==
    p[first_min_idx([i \in 1..Len(p) |-> srgb_distance_squared(srgb_color, p[i])], 2, 1)]

\* image::manip::rgb_image_to_float_srgb_vec
rgb_image_to_float_srgb_vec(img) ==
    [yy \in 1..img.height |-> [xx \in 1..img.width |-> rgbu8_to_srgb(img.pixels[yy][xx])]]

srgb_vec_to_rgb_image_Transposed(w, h, rgb_vec) ==
    RgbImage(h, w, [yy \in 1..w |-> [xx \in 1..h |-> srgb_to_rgbu8(rgb_vec[xx][yy])]])

\* image::manip::srgb_vec_to_rgb_image
srgb_vec_to_rgb_image(w, h, rgb_vec) ==
    RgbImage(w, h, [yy \in 1..h |-> [xx \in 1..w |-> srgb_to_rgbu8(rgb_vec[yy][xx])]])

Kernel2x2(tl, tr, bl, br) == [tl |-> tl, tr |-> tr, bl |-> bl, br |-> br]

\* get_wrapped: a read past the last column / row reads the last column / row
get_wrapped(m, w, h, translated_x, translated_y) ==
    LET target_x == IF translated_x < w THEN translated_x ELSE w - 1
        target_y == IF translated_y < h THEN translated_y ELSE h - 1
    IN  m[target_y + 1][target_x + 1]

\* Kernel2x2::from_matrix, tl_position = (px, py), 0-based
from_matrix(px, py, w, h, m) ==
    Kernel2x2(get_wrapped(m, w, h, px, py), get_wrapped(m, w, h, px + 1, py),
              get_wrapped(m, w, h, px, py + 1), get_wrapped(m, w, h, px + 1, py + 1))

\* set_omitting: a write past the last column / row is dropped
set_omitting(m, w, h, translated_x, translated_y, value) ==
    IF translated_x < w /\ translated_y < h
    THEN [m EXCEPT ![translated_y + 1][translated_x + 1] = value]
    ELSE m

\* a write past the last column / row lands on the last column / row
apply_to_matrix_Wrapped(k, px, py, w, h, m) ==
    LET set_wrapped(mm, translated_x, translated_y, value) ==
            LET target_x == IF translated_x < w THEN translated_x ELSE w - 1
                target_y == IF translated_y < h THEN translated_y ELSE h - 1
            IN  [mm EXCEPT ![target_y + 1][target_x + 1] = value]
    IN  set_wrapped(set_wrapped(set_wrapped(set_wrapped(m, px, py, k.tl),
            px + 1, py, k.tr), px, py + 1, k.bl), px + 1, py + 1, k.br)

\* Kernel2x2::apply_to_matrix: tl, tr, bl, br written in this order
apply_to_matrix(k, px, py, w, h, m) ==
    set_omitting(set_omitting(set_omitting(set_omitting(m,
        w, h, px, py, k.tl), w, h, px + 1, py, k.tr), w, h, px, py + 1, k.bl),
        w, h, px + 1, py + 1, k.br)

\* apply_2x2_dithering_srgb_kernel: tl becomes its closest palette colour, the
\* quantisation error is spread over tr, bl, br
apply_2x2_dithering_srgb_kernel(k, p) ==
    LET closest_tl_color == find_closest_srgb_color(k.tl, p)
        quant_error == srgb_sub(k.tl, closest_tl_color)
    IN  Kernel2x2(closest_tl_color,
                  srgb_add(k.tr, srgb_mul_scalar(quant_error, err_weights[1])),
                  srgb_add(k.bl, srgb_mul_scalar(quant_error, err_weights[2])),
                  srgb_add(k.br, srgb_mul_scalar(quant_error, err_weights[3])))

\* the loops of dithering_floyd_steinberg_rgb from the pass at (x, y) on
RECURSIVE fs_loops(_, _, _, _, _, _)
fs_loops(m, x, y, w, h, srgb_palette) ==
    IF ~(y < h /\ x < w) THEN m
    ELSE LET result_kernel == apply_2x2_dithering_srgb_kernel(from_matrix(x, y, w, h, m), srgb_palette)
             next_m == apply_to_matrix(result_kernel, x, y, w, h, m)
         IN  IF x + 1 < w THEN fs_loops(next_m, x + 1, y, w, h, srgb_palette)
             ELSE fs_loops(next_m, 0, y + 1, w, h, srgb_palette)

\* dithering_floyd_steinberg_rgb on a non-empty palette, as one function of the image
dithering_floyd_steinberg_rgb(img, p) ==
    srgb_vec_to_rgb_image(img.width, img.height,
        fs_loops(rgb_image_to_float_srgb_vec(img), 0, 0, img.width, img.height, to_srgb(p)))

\* ------------------------------------------------------------------------
\* algorithms/kernel.rs : apply_2x2_kernel_processing (T = an integer type)
\* ------------------------------------------------------------------------
\* values the cells of an input grid are filled with
GridFills == {0, 7}

\* the width x height grids, every cell holding the same value
Grids ==
    {[yy \in 1..h |-> [xx \in 1..w |-> fill]] :
        w \in 0..MaxGridWidth, h \in 0..MaxGridHeight, fill \in GridFills}

\* the closures handed in as processing: add 1 to each slot, or store a value
\* in each slot
Processings ==
    {[kind |-> "add_one", value |-> 1], [kind |-> "store", value |-> 3],
     [kind |-> "store", value |-> 5]}

\* storage locations a slot can refer to: a grid cell (row cy, column cx,
\* 0-based) or one of the three scratch values
Cell(cy, cx) == <<"cell", cy, cx>>

DummyTr == <<"dummy_tr", 0, 0>>

DummyBl == <<"dummy_bl", 0, 0>>

DummyBr == <<"dummy_br", 0, 0>>

\* the storage the slots point into: the matrix and the three scratch values
Store(m, dtr, dbl, dbr) == [matrix |-> m, dummy_tr |-> dtr, dummy_bl |-> dbl, dummy_br |-> dbr]

ReadLoc(st, loc) ==
    IF loc[1] = "cell" THEN st.matrix[loc[2] + 1][loc[3] + 1]
    ELSE IF loc[1] = "dummy_tr" THEN st.dummy_tr
    ELSE IF loc[1] = "dummy_bl" THEN st.dummy_bl
    ELSE st.dummy_br

WriteLoc(st, loc, value) ==
    IF loc[1] = "cell" THEN [st EXCEPT !.matrix[loc[2] + 1][loc[3] + 1] = value]
    ELSE IF loc[1] = "dummy_tr" THEN [st EXCEPT !.dummy_tr = value]
    ELSE IF loc[1] = "dummy_bl" THEN [st EXCEPT !.dummy_bl = value]
    ELSE [st EXCEPT !.dummy_br = value]

has_min_size_NonEmpty(len) == len > 0

\* assert!(height > 1), assert!(width > 1)
has_min_size(len) == len > 1

\* matrix[0].len(), read only after the height assertion has passed
matrix_width(m) == IF Len(m) = 0 THEN 0 ELSE Len(m[1])

\* one scratch value shared by the three slots
kernel_slots_SharedDummy(kx, ky, w, h) ==
    <<Cell(ky, kx),
      IF kx # w - 1 THEN Cell(ky, kx + 1) ELSE DummyTr,
      IF ky # h - 1 THEN Cell(ky + 1, kx) ELSE DummyTr,
      IF ky # h - 1 /\ kx # w - 1 THEN Cell(ky + 1, kx + 1) ELSE DummyTr>>

\* a slot past the last column is the next cell of the flattened grid
kernel_slots_Flat(kx, ky, w, h) ==
    <<Cell(ky, kx),
      IF kx # w - 1 THEN Cell(ky, kx + 1) ELSE IF ky # h - 1 THEN Cell(ky + 1, 0) ELSE DummyTr,
      IF ky # h - 1 THEN Cell(ky + 1, kx) ELSE DummyBl,
      IF ky # h - 1 /\ kx # w - 1 THEN Cell(ky + 1, kx + 1) ELSE DummyBr>>

\* a slot past the last column / row is clamped to the last column / row
kernel_slots_Clamped(kx, ky, w, h) ==
    LET cx == IF kx # w - 1 THEN kx + 1 ELSE kx
        cy == IF ky # h - 1 THEN ky + 1 ELSE ky
    IN  <<Cell(ky, kx), Cell(ky, cx), Cell(cy, kx), Cell(cy, cx)>>

\* the pointers tl, tr, bl, br of the step at column kx, row ky
kernel_slots(kx, ky, w, h) ==
    LET row_is_last == ky = h - 1
        column_is_last == kx = w - 1
    IN  <<Cell(ky, kx),
          IF ~column_is_last THEN Cell(ky, kx + 1) ELSE DummyTr,
          IF ~row_is_last THEN Cell(ky + 1, kx) ELSE DummyBl,
          IF ~row_is_last /\ ~column_is_last THEN Cell(ky + 1, kx + 1) ELSE DummyBr>>

\* the closure applied through the four pointers, tl, tr, bl, br in this order
RECURSIVE apply_processing(_, _, _, _)
apply_processing(st, proc, slots4, i) ==
    IF i > Len(slots4) THEN st
    ELSE apply_processing(
            WriteLoc(st, slots4[i],
                     IF proc.kind = "add_one" THEN ReadLoc(st, slots4[i]) + 1 ELSE proc.value),
            proc, slots4, i + 1)

inner_loop_continues_SkipLast(kx, w) == kx + 1 < w - 1

\* for x in 0..width: another column follows column kx
inner_loop_continues(kx, w) == kx + 1 < w

\* ------------------------------------------------------------------------
\* State
\* ------------------------------------------------------------------------
VARIABLES
    pc,                 \* "idle", "loop" (inside find_centroids' loop), "done" (the call has returned)
    caller,             \* who called find_centroids: "none", "direct", "try_reduce"
    input,              \* find_centroids: the input slice
    centroids_count,    \* find_centroids: the requested number of centroids
    centroids,          \* find_centroids: let mut centroids
    last_centroids,     \* find_centroids: let mut last_centroids
    clusters,           \* find_centroids: let mut clusters
    iterations_count,   \* find_centroids: let mut iterations_count
    km_result,          \* what find_centroids returned (or that it panicked)
    sampled,            \* choose_multiple has been called in this call
    distance_called,    \* distance_measure has been called in this call
    mean_called,        \* calculate_mean has been called in this call
    distance_measure,   \* find_centroids: the closure handed in as distance_measure
    calculate_mean,     \* find_centroids: the closure handed in as calculate_mean
    palette,            \* the PaletteRGB the program holds
    other,              \* a second PaletteRGB
    pal_op,             \* the last palette operation
    pal_result,         \* what the last palette operation returned
    self_at_call,       \* try_reduce / combine: self when the call was made
    other_at_call,      \* combine: the palette handed in
    fc_invoked,         \* try_reduce: find_lab_colors_centroids has been called
    target_colors_count,\* try_reduce: the requested number of colours
    ops,                \* operations applied to the palette since it was constructed
    source_image,       \* ImageProcessor.source_image
    ip_palette,         \* ImageProcessor.palette
    algorithm,          \* ImageProcessor.algorithm
    ip_pc,              \* "none", "built" (ImageProcessor exists), "fs_loop", "done" (run has returned)
    rgb_matrix,         \* dithering_floyd_steinberg_rgb: let mut rgb_matrix
    fs_x,               \* dithering_floyd_steinberg_rgb: x of the loop
    fs_y,               \* dithering_floyd_steinberg_rgb: y of the loop
    ip_result,          \* what run returned (or that it panicked)
    matrix,             \* apply_2x2_kernel_processing: the matrix
    processing,         \* apply_2x2_kernel_processing: the closure
    dummy_tr,           \* apply_2x2_kernel_processing: let mut dummy_tr
    dummy_bl,           \* apply_2x2_kernel_processing: let mut dummy_bl
    dummy_br,           \* apply_2x2_kernel_processing: let mut dummy_br
    kernel_x,           \* apply_2x2_kernel_processing: x of the loop
    kernel_y,           \* apply_2x2_kernel_processing: y of the loop
    kt_pc,              \* "none", "loop", "done" (the call has returned or panicked)
    kt_result,          \* how the call ended
    matrix_at_call,     \* the matrix as it was handed in
    calls,              \* the top-left positions <<x, y>> of the calls of processing, in order
    slots,              \* the pointers <<tl, tr, bl, br>> of the last call of processing
    mt_input,           \* get_filled_cluster_multithreaded: input
    mt_centroids,       \* get_filled_cluster_multithreaded: centroids
    mt_distance_measure,\* get_filled_cluster_multithreaded: distance_measure
    workers_count,      \* get_filled_cluster_multithreaded: let workers_count
    ranges,             \* get_filled_cluster_multithreaded: let ranges
    handlers,           \* how many workers have been spawned
    worker_pc,          \* per worker: "unspawned", "running", "finished", "panicked"
    partial,            \* per worker: the clusters its closure returned
    finished_order,     \* the workers in the order in which they finished
    all_clusters,       \* get_filled_cluster_multithreaded: the results joined so far
    mt_pc,              \* "none", "scope", "panicking", "done"
    mt_result           \* what get_filled_cluster_multithreaded returned (or that it panicked)

kmVars == <<pc, caller, input, centroids_count, centroids, last_centroids, clusters,
            iterations_count, km_result, sampled, distance_called, mean_called,
            distance_measure, calculate_mean>>

palVars == <<palette, pal_op, pal_result, self_at_call, other_at_call, fc_invoked,
             target_colors_count, ops>>

ipVars == <<source_image, ip_palette, algorithm, ip_pc, rgb_matrix, fs_x, fs_y, ip_result>>

ktVars == <<matrix, processing, dummy_tr, dummy_bl, dummy_br, kernel_x, kernel_y, kt_pc,
            kt_result, matrix_at_call, calls, slots>>

mtVars == <<mt_input, mt_centroids, mt_distance_measure, workers_count, ranges, handlers,
            worker_pc, partial, finished_order, all_clusters, mt_pc, mt_result>>

procVars == <<ipVars, ktVars, mtVars>>

vars == <<kmVars, palVars, other, procVars>>

ItemValues == {to_lab(c) : c \in InputColors}

\* the periods of the circles the angle closures are built for (1.2 and 3.6)
Periods == {120, 360}

\* the angles handed in with a circular distance of the given period: 0, a
\* third of a turn and five sixths of a turn
Angles(period) == {F32(0), F32(period \div 3), F32((5 * period) \div 6)}

Init ==
    /\ pc = "idle"
    /\ caller = "none"
    /\ input = <<>>
    /\ centroids_count = 0
    /\ centroids = <<>>
    /\ last_centroids = <<>>
    /\ clusters = <<>>
    /\ iterations_count = 0
    /\ km_result = NoResult
    /\ sampled = FALSE
    /\ distance_called = FALSE
    /\ mean_called = FALSE
    /\ distance_measure = NoClosure
    /\ calculate_mean = "none"
    /\ palette = <<>>
    /\ other = <<>>
    /\ pal_op = "none"
    /\ pal_result = NoResult
    /\ self_at_call = <<>>
    /\ other_at_call = <<>>
    /\ fc_invoked = FALSE
    /\ target_colors_count = 0
    /\ ops = 0
    /\ source_image = NoImage
    /\ ip_palette = <<>>
    /\ algorithm = "ThresholdingRgb"
    /\ ip_pc = "none"
    /\ rgb_matrix = <<>>
    /\ fs_x = 0
    /\ fs_y = 0
    /\ ip_result = NoResult
    /\ matrix = <<>>
    /\ processing = [kind |-> "add_one", value |-> 1]
    /\ dummy_tr = 0
    /\ dummy_bl = 0
    /\ dummy_br = 0
    /\ kernel_x = 0
    /\ kernel_y = 0
    /\ kt_pc = "none"
    /\ kt_result = NoResult
    /\ matrix_at_call = <<>>
    /\ calls = <<>>
    /\ slots = <<>>
    /\ mt_input = <<>>
    /\ mt_centroids = <<>>
    /\ mt_distance_measure = NoClosure
    /\ workers_count = 0
    /\ ranges = <<>>
    /\ handlers = 0
    /\ worker_pc = <<>>
    /\ partial = <<>>
    /\ finished_order = <<>>
    /\ all_clusters = <<>>
    /\ mt_pc = "none"
    /\ mt_result = NoResult

\* find_centroids up to the loop: validation, the trivial case, the sampling
FindCentroidsEnter(items, k, who, distance_fn, mean_fn) ==
    /\ caller' = who
    /\ distance_measure' = distance_fn
    /\ calculate_mean' = mean_fn
    /\ input' = items
    /\ centroids_count' = k
    /\ last_centroids' = <<>>
    /\ clusters' = <<>>
    /\ iterations_count' = 0
    /\ distance_called' = FALSE
    /\ mean_called' = FALSE
    /\ IF validate_input(items, k).tag # "Ok"
       THEN /\ km_result' = validate_input(items, k)
            /\ pc' = "done"
            /\ centroids' = <<>>
            /\ sampled' = FALSE
       ELSE IF IsTrivialCase(items, k)
       THEN /\ km_result' = Ok(items)
            /\ pc' = "done"
            /\ centroids' = <<>>
            /\ sampled' = FALSE
       ELSE /\ \E p \in Samples(Len(items), k) : centroids' = [i \in 1..k |-> items[p[i]]]
            /\ km_result' = NoResult
            /\ pc' = "loop"
            /\ sampled' = TRUE

\* a direct call of find_centroids
FindCentroidsCall ==
    /\ pc = "idle"
    /\ \E k \in 0..(MaxItems + 1) :
        \/ \E items \in SeqsUpTo(ItemValues, MaxItems) :
                FindCentroidsEnter(items, k, "direct", LabDifference, "calculate_lab_mean")
        \/ \E period \in Periods : \E items \in SeqsUpTo(Angles(period), MaxItems) :
                FindCentroidsEnter(items, k, "direct", CircularDistance(period), "arithmetic_mean")
    /\ UNCHANGED <<palVars, other, procVars>>

\* one pass of find_centroids' loop
Iterate ==
    /\ pc = "loop"
    /\ iterations_count <= ITERATION_MAX_COUNT
    /\ iterations_count' = iterations_count + 1
    /\ distance_called' = (distance_called \/ (Len(input) > 0 /\ Len(centroids) > 0))
    /\ IF AssignmentPanics(input, centroids, distance_measure)
       THEN /\ km_result' = Panic
            /\ pc' = "done"
            /\ UNCHANGED <<centroids, last_centroids, clusters, mean_called>>
       ELSE /\ clusters' = create_clusters_assignment(input, centroids, distance_measure)
            /\ last_centroids' = centroids
            /\ centroids' = create_centroids_from_clusters(clusters', calculate_mean)
            /\ mean_called' = (mean_called \/ Len(clusters') > 0)
            /\ IF check_converges(centroids, centroids', CONVERGE_THRESHOLD, distance_measure)
               THEN /\ km_result' = Ok(centroids')
                    /\ pc' = "done"
               ELSE IF cap_exceeded(iterations_count')
               THEN /\ pc' = "done"
                    /\ IF check_converges(centroids, centroids', CONVERGE_ENOUGH_THRESHOLD,
                                          distance_measure)
                       THEN km_result' = Ok(centroids')
                       ELSE km_result' = Err("TooManyIterations", 0, 0)
               ELSE /\ km_result' = NoResult
                    /\ pc' = "loop"
    /\ UNCHANGED <<caller, input, centroids_count, sampled, distance_measure, calculate_mean,
                   palVars, other, procVars>>

\* find_centroids' locals at rest (no call in progress)
KmAtRest ==
    /\ pc' = "idle"
    /\ caller' = "none"
    /\ input' = <<>>
    /\ centroids_count' = 0
    /\ centroids' = <<>>
    /\ last_centroids' = <<>>
    /\ clusters' = <<>>
    /\ iterations_count' = 0
    /\ km_result' = NoResult
    /\ sampled' = FALSE
    /\ distance_called' = FALSE
    /\ mean_called' = FALSE
    /\ distance_measure' = NoClosure
    /\ calculate_mean' = "none"

\* the direct caller takes the result; the locals of the call are dropped
FindCentroidsReturn ==
    /\ pc = "done"
    /\ caller = "direct"
    /\ KmAtRest
    /\ UNCHANGED <<palVars, other, procVars>>

Next == FindCentroidsCall \/ Iterate \/ FindCentroidsReturn

Spec == Init /\ [][Next]_vars

\* a call that is inside the loop goes on with its next pass
SpecFair == Spec /\ WF_vars(Iterate)

\* ------------------------------------------------------------------------
\* Palette operations
\* ------------------------------------------------------------------------
PaletteOp(name, p, res, n) ==
    /\ pc = "idle"
    /\ ops' = n
    /\ palette' = p
    /\ pal_op' = name
    /\ pal_result' = res
    /\ self_at_call' = <<>>
    /\ other_at_call' = <<>>
    /\ fc_invoked' = FALSE
    /\ target_colors_count' = 0
    /\ UNCHANGED <<kmVars, other, procVars>>

\* self.combine(o): append, dedup, sort
CombineOp(name, o) ==
    /\ pc = "idle"
    /\ ops' = ops + 1
    /\ palette' = combine(palette, o)
    /\ pal_op' = name
    /\ pal_result' = Ok(palette')
    /\ self_at_call' = palette
    /\ other_at_call' = o
    /\ fc_invoked' = FALSE
    /\ target_colors_count' = 0
    /\ UNCHANGED <<kmVars, other, procVars>>

\* the program holds no palette yet: a palette is built by one constructor call
\* and then changed by combine / with_black_and_white / try_reduce; a later
\* constructor call builds the same values a first one does
Unconstructed == pal_op = "none"

\* PaletteRGB::from_rgbu8_image
FromImage ==
    /\ Unconstructed
    /\ \E pixels \in SeqsUpTo(InputColors, MaxItems) : \E p \in FromHashSet(Range(pixels)) :
            PaletteOp("from_rgbu8_image", p, Ok(p), 0)

\* PaletteRGB::from(vec)
FromVector ==
    /\ Unconstructed
    /\ \E v \in SeqsUpTo(InputColors, MaxItems) : \E p \in FromVec(v) :
            PaletteOp("from_vec", p, Ok(p), 0)

BlackAndWhite ==
    /\ Unconstructed
    /\ \E p \in black_and_white : PaletteOp("black_and_white", p, Ok(p), 0)

Primary ==
    /\ Unconstructed
    /\ \E p \in primary : PaletteOp("primary", p, Ok(p), 0)

PrimaryBw ==
    /\ Unconstructed
    /\ \E p \in primary_bw : PaletteOp("primary_bw", p, Ok(p), 0)

\* PaletteRGB::grayscale: the assert panics below two steps
Grayscale ==
    /\ Unconstructed
    /\ \E steps \in 0..MaxGraySteps :
            IF steps >= 2
            THEN PaletteOp("grayscale", grayscale(steps), Ok(grayscale(steps)), 0)
            ELSE PaletteOp("grayscale", palette, Panic, ops)

\* PaletteRGB::load_from_json: a missing file, a corrupted file, or an array of colours
LoadFromJson ==
    /\ Unconstructed
    /\ \/ PaletteOp("load_from_json", palette, Err("IoError", 0, 0), ops)
       \/ PaletteOp("load_from_json", palette, Err("JsonParsingFailed", 0, 0), ops)
       \/ \E file \in SeqsUpTo(InputColors, MaxItems) :
               PaletteOp("load_from_json", sort(file), Ok(sort(file)), 0)

\* palettes that can be handed to combine: the fixed palettes, and From<Vec> of
\* every vector of at most MaxItems input colours (From<Vec> goes through the
\* HashSet of the vector's colours)
Constructible ==
    black_and_white \cup primary \cup {grayscale(n) : n \in 2..MaxGraySteps}
        \cup UNION {FromHashSet(S) : S \in {T \in SUBSET InputColors : Cardinality(T) <= MaxItems}}

\* PaletteRGB::combine, with another palette or with a clone of self
Combine ==
    /\ pc = "idle"
    /\ ops < MaxOps
    /\ \E o \in Constructible \cup {palette} :
            /\ Len(palette) + Len(o) <= MaxPaletteLen
            /\ CombineOp("combine", o)

\* PaletteRGB::with_black_and_white
WithBlackAndWhite ==
    /\ pc = "idle"
    /\ ops < MaxOps
    /\ \E bw \in black_and_white :
            /\ Len(palette) + Len(bw) <= MaxPaletteLen
            /\ CombineOp("with_black_and_white", bw)

\* PaletteRGB::try_reduce up to the return of find_lab_colors_centroids
TryReduceCall ==
    /\ pc = "idle"
    /\ ops < MaxOps
    /\ ops' = ops + 1
    /\ \E target \in 0..(Len(palette) + 1) :
        /\ pal_op' = "try_reduce"
        /\ self_at_call' = palette
        /\ other_at_call' = <<>>
        /\ target_colors_count' = target
        /\ palette' = palette
        /\ IF CmpLen(Len(palette), target) = "Less"
           THEN /\ pal_result' = NotEnoughColors(target, Len(palette))
                /\ fc_invoked' = FALSE
                /\ UNCHANGED kmVars
           ELSE IF CmpLen(Len(palette), target) = "Equal"
           THEN /\ pal_result' = Ok(palette)
                /\ fc_invoked' = FALSE
                /\ UNCHANGED kmVars
           ELSE /\ pal_result' = NoResult
                /\ fc_invoked' = TRUE
                /\ FindCentroidsEnter(PaletteToLab(palette), target, "try_reduce",
                                      LabDifference, "calculate_lab_mean")
    /\ UNCHANGED <<other, procVars>>

\* PaletteRGB::try_reduce from the return of find_lab_colors_centroids on:
\* the ? operator, PaletteRGB::from(new_lab_colors), sort
TryReduceReturn ==
    /\ pc = "done"
    /\ caller = "try_reduce"
    /\ IF km_result.tag = "Ok"
       THEN \E p \in FromVec([i \in 1..Len(km_result.value) |-> from_lab(km_result.value[i])]) :
                /\ palette' = sort(p)
                /\ pal_result' = Ok(sort(p))
       ELSE /\ palette' = palette
            /\ pal_result' = IF km_result.tag = "panic" THEN Panic
                             ELSE Err("ConvertionErrot", km_result.expected, km_result.actual)
    /\ KmAtRest
    /\ UNCHANGED <<pal_op, self_at_call, other_at_call, fc_invoked, target_colors_count, ops, other,
                   procVars>>

NextPalette ==
    \/ FromImage \/ FromVector \/ BlackAndWhite \/ Primary \/ PrimaryBw \/ Grayscale
    \/ LoadFromJson \/ Combine \/ WithBlackAndWhite
    \/ TryReduceCall \/ Iterate \/ TryReduceReturn

SpecPalette == Init /\ [][NextPalette]_vars

\* PaletteRGB::from(vec) building the second palette
FromVectorOther ==
    /\ pc = "idle"
    /\ \E v \in SeqsUpTo(InputColors, MaxItems) : \E p \in FromVec(v) : other' = p
    /\ UNCHANGED <<kmVars, palVars, procVars>>

NextOrder == FromImage \/ FromVector \/ FromVectorOther

SpecOrder == Init /\ [][NextOrder]_vars

\* ------------------------------------------------------------------------
\* ImageProcessor
\* ------------------------------------------------------------------------
ProcessingAlgorithm == {"ThresholdingRgb", "ThresholdingLab", "FloydSteinbergRgb"}

\* ImageProcessor::new
ImageProcessorNew ==
    /\ ip_pc = "none"
    /\ \E img \in Images, p \in ImagePalettes :
            /\ source_image' = img
            /\ ip_palette' = p
    /\ algorithm' = "ThresholdingRgb"
    /\ ip_pc' = "built"
    /\ UNCHANGED <<rgb_matrix, fs_x, fs_y, ip_result, kmVars, palVars, other, ktVars, mtVars>>

\* ImageProcessor::with_algorithm
WithAlgorithm ==
    /\ ip_pc = "built"
    /\ \E a \in ProcessingAlgorithm : algorithm' = a
    /\ UNCHANGED <<source_image, ip_palette, ip_pc, rgb_matrix, fs_x, fs_y, ip_result,
                   kmVars, palVars, other, ktVars, mtVars>>

\* ImageProcessor::run, the thresholding arms
RunThresholding ==
    /\ ip_pc = "built"
    /\ algorithm \in {"ThresholdingRgb", "ThresholdingLab"}
    /\ ip_result' = IF ClosestPanics(source_image, ip_palette) THEN Panic
                    ELSE IF algorithm = "ThresholdingRgb"
                    THEN Ok(thresholding_rgb(source_image, ip_palette))
                    ELSE Ok(thresholding_lab(source_image, ip_palette))
    /\ ip_pc' = "done"
    /\ UNCHANGED <<source_image, ip_palette, algorithm, rgb_matrix, fs_x, fs_y,
                   kmVars, palVars, other, ktVars, mtVars>>

\* ImageProcessor::run, the FloydSteinbergRgb arm, up to the loops of
\* dithering_floyd_steinberg_rgb
RunFloydSteinberg ==
    /\ ip_pc = "built"
    /\ algorithm = "FloydSteinbergRgb"
    /\ rgb_matrix' = rgb_image_to_float_srgb_vec(source_image)
    /\ fs_x' = 0
    /\ fs_y' = 0
    /\ ip_pc' = "fs_loop"
    /\ UNCHANGED <<source_image, ip_palette, algorithm, ip_result, kmVars, palVars, other, ktVars, mtVars>>

\* for y in 0..height { for x in 0..width { .. } } has a pass left
FsLoopRuns == fs_y < source_image.height /\ fs_x < source_image.width

\* one pass of the inner loop of dithering_floyd_steinberg_rgb
FsStep ==
    /\ ip_pc = "fs_loop"
    /\ FsLoopRuns
    /\ IF Len(ip_palette) = 0
       THEN /\ ip_result' = Panic
            /\ ip_pc' = "done"
            /\ UNCHANGED <<rgb_matrix, fs_x, fs_y>>
       ELSE /\ rgb_matrix' =
                apply_to_matrix(
                    apply_2x2_dithering_srgb_kernel(
                        from_matrix(fs_x, fs_y, source_image.width, source_image.height, rgb_matrix),
                        to_srgb(ip_palette)),
                    fs_x, fs_y, source_image.width, source_image.height, rgb_matrix)
            /\ IF fs_x + 1 < source_image.width
               THEN fs_x' = fs_x + 1 /\ fs_y' = fs_y
               ELSE fs_x' = 0 /\ fs_y' = fs_y + 1
            /\ UNCHANGED <<ip_result, ip_pc>>
    /\ UNCHANGED <<source_image, ip_palette, algorithm, kmVars, palVars, other, ktVars, mtVars>>

\* dithering_floyd_steinberg_rgb after the loops: the matrix becomes the image
FsFinish ==
    /\ ip_pc = "fs_loop"
    /\ ~FsLoopRuns
    /\ ip_result' = Ok(srgb_vec_to_rgb_image(source_image.width, source_image.height, rgb_matrix))
    /\ ip_pc' = "done"
    /\ UNCHANGED <<source_image, ip_palette, algorithm, rgb_matrix, fs_x, fs_y,
                   kmVars, palVars, other, ktVars, mtVars>>

NextImage ==
    ImageProcessorNew \/ WithAlgorithm \/ RunThresholding \/ RunFloydSteinberg
        \/ FsStep \/ FsFinish

SpecImage == Init /\ [][NextImage]_vars

\* ------------------------------------------------------------------------
\* apply_2x2_kernel_processing
\* ------------------------------------------------------------------------
\* the call up to the loops: the two assertions and the scratch values
KernelCall ==
    /\ kt_pc = "none"
    /\ \E m \in Grids, proc \in Processings :
            /\ matrix' = m
            /\ matrix_at_call' = m
            /\ processing' = proc
            /\ IF has_min_size(Len(m)) /\ has_min_size(matrix_width(m))
               THEN kt_pc' = "loop" /\ kt_result' = NoResult
               ELSE kt_pc' = "done" /\ kt_result' = Panic
    /\ dummy_tr' = 0
    /\ dummy_bl' = 0
    /\ dummy_br' = 0
    /\ kernel_x' = 0
    /\ kernel_y' = 0
    /\ calls' = <<>>
    /\ slots' = <<>>
    /\ UNCHANGED <<kmVars, palVars, other, ipVars, mtVars>>

\* one pass of the inner loop: the four pointers are taken and processing is called
KernelStep ==
    /\ kt_pc = "loop"
    /\ kernel_y < Len(matrix)
    /\ LET width == matrix_width(matrix)
           kernel == kernel_slots(kernel_x, kernel_y, width, Len(matrix))
           st == apply_processing(Store(matrix, dummy_tr, dummy_bl, dummy_br), processing, kernel, 1)
       IN  /\ slots' = kernel
           /\ calls' = Append(calls, <<kernel_x, kernel_y>>)
           /\ matrix' = st.matrix
           /\ dummy_tr' = st.dummy_tr
           /\ dummy_bl' = st.dummy_bl
           /\ dummy_br' = st.dummy_br
           /\ IF inner_loop_continues(kernel_x, width)
              THEN kernel_x' = kernel_x + 1 /\ kernel_y' = kernel_y
              ELSE kernel_x' = 0 /\ kernel_y' = kernel_y + 1
    /\ UNCHANGED <<processing, kt_pc, kt_result, matrix_at_call, kmVars, palVars, other, ipVars, mtVars>>

\* the loops are over: the call returns
KernelReturn ==
    /\ kt_pc = "loop"
    /\ kernel_y >= Len(matrix)
    /\ kt_pc' = "done"
    /\ kt_result' = Ok(<<>>)
    /\ UNCHANGED <<matrix, processing, dummy_tr, dummy_bl, dummy_br, kernel_x, kernel_y,
                   matrix_at_call, calls, slots, kmVars, palVars, other, ipVars, mtVars>>

NextKernel == KernelCall \/ KernelStep \/ KernelReturn

SpecKernel == Init /\ [][NextKernel]_vars

\* ------------------------------------------------------------------------
\* get_filled_cluster_multithreaded: the scoped worker threads
\* ------------------------------------------------------------------------
\* the angles and the centroids handed to the multithreaded assignment
MtItemValues == Angles(120)

MtCentroidValues == {F32(0), F32(40), F32NaN}

\* the call up to the scope: the worker count of the machine and the ranges
MtCall ==
    /\ mt_pc = "none"
    /\ \E items \in SeqsUpTo(MtItemValues, MaxItems),
          cs \in SeqsUpTo(MtCentroidValues, MaxItems - 1),
          cpus \in 1..num_cpus :
            /\ mt_input' = items
            /\ mt_centroids' = cs
            /\ workers_count' = cpus
            /\ ranges' = [w \in 1..cpus |-> WorkerRange(Len(items), cpus, w - 1)]
            /\ worker_pc' = [w \in 1..cpus |-> "unspawned"]
            /\ partial' = [w \in 1..cpus |-> <<>>]
    /\ mt_distance_measure' = CircularDistance(120)
    /\ handlers' = 0
    /\ finished_order' = <<>>
    /\ all_clusters' = <<>>
    /\ mt_pc' = "scope"
    /\ mt_result' = NoResult
    /\ UNCHANGED <<kmVars, palVars, other, ipVars, ktVars>>

\* s.spawn for the next range: the worker starts to run
Spawn ==
    /\ mt_pc = "scope"
    /\ handlers < workers_count
    /\ handlers' = handlers + 1
    /\ worker_pc' = [worker_pc EXCEPT ![handlers + 1] = "running"]
    /\ UNCHANGED <<mt_input, mt_centroids, mt_distance_measure, workers_count, ranges, partial,
                   finished_order, all_clusters, mt_pc, mt_result,
                   kmVars, palVars, other, ipVars, ktVars>>

\* the closure of worker w runs to its end: get_filled_batch_cluster on its chunk
WorkerRun(w) ==
    /\ worker_pc[w] = "running"
    /\ LET batch == SubSeq(mt_input, ranges[w][1] + 1, ranges[w][2])
       IN  IF AssignmentPanics(batch, mt_centroids, mt_distance_measure)
           THEN /\ worker_pc' = [worker_pc EXCEPT ![w] = "panicked"]
                /\ partial' = partial
           ELSE /\ worker_pc' = [worker_pc EXCEPT ![w] = "finished"]
                /\ partial' = [partial EXCEPT ![w] =
                        get_filled_batch_cluster(batch, mt_centroids, mt_distance_measure)]
    /\ finished_order' = Append(finished_order, w)
    /\ UNCHANGED <<mt_input, mt_centroids, mt_distance_measure, workers_count, ranges, handlers,
                   all_clusters, mt_pc, mt_result, kmVars, palVars, other, ipVars, ktVars>>

\* handler.join().unwrap() for the next handler, in the order of the handlers:
\* it waits for the worker and panics if the worker did
Join ==
    /\ mt_pc = "scope"
    /\ handlers = workers_count
    /\ Len(all_clusters) < workers_count
    /\ LET w == Len(all_clusters) + 1
       IN  /\ worker_pc[w] \in {"finished", "panicked"}
           /\ IF worker_pc[w] = "finished"
              THEN all_clusters' = Append(all_clusters, partial[w]) /\ mt_pc' = mt_pc
              ELSE all_clusters' = all_clusters /\ mt_pc' = "panicking"
    /\ UNCHANGED <<mt_input, mt_centroids, mt_distance_measure, workers_count, ranges, handlers,
                   worker_pc, partial, finished_order, mt_result,
                   kmVars, palVars, other, ipVars, ktVars>>

\* the scope is left by a panic once every worker has come to its end
ScopeUnwind ==
    /\ mt_pc = "panicking"
    /\ \A w \in 1..workers_count : worker_pc[w] # "running"
    /\ mt_pc' = "done"
    /\ mt_result' = Panic
    /\ UNCHANGED <<mt_input, mt_centroids, mt_distance_measure, workers_count, ranges, handlers,
                   worker_pc, partial, finished_order, all_clusters,
                   kmVars, palVars, other, ipVars, ktVars>>

\* every handler is joined: the partial clusters are merged and returned
Merge ==
    /\ mt_pc = "scope"
    /\ handlers = workers_count
    /\ Len(all_clusters) = workers_count
    /\ mt_pc' = "done"
    /\ mt_result' = Ok(MergePartial(all_clusters, 1, [i \in 1..Len(mt_centroids) |-> <<>>]))
    /\ UNCHANGED <<mt_input, mt_centroids, mt_distance_measure, workers_count, ranges, handlers,
                   worker_pc, partial, finished_order, all_clusters,
                   kmVars, palVars, other, ipVars, ktVars>>

NextThreads ==
    MtCall \/ Spawn \/ (\E w \in 1..workers_count : WorkerRun(w)) \/ Join \/ ScopeUnwind \/ Merge

SpecThreads == Init /\ [][NextThreads]_vars

\* ------------------------------------------------------------------------
\* Properties of find_centroids
\* ------------------------------------------------------------------------

\* C1: find_centroids on an empty input returns InputEmpty for every k (k = 0
\* included), before any centroid is sampled and without a call of the distance
\* or the mean function.
C1_EmptyInputFails ==
    (pc # "idle" /\ Len(input) = 0) =>
        /\ pc = "done"
        /\ km_result = Err("InputEmpty", 0, 0)
        /\ ~sampled /\ ~distance_called /\ ~mean_called
        /\ iterations_count = 0

C1_Witness ==
    /\ pc = "done" /\ caller = "direct"
    /\ input = <<>> /\ centroids_count = 0
    /\ km_result.tag = "InputEmpty"

\* C2: find_centroids on a non-empty input with k > input.len() returns
\* TooManyCentroids{expected: k, actual: input.len()} and runs no iteration.
C2_TooManyCentroids ==
    (pc # "idle" /\ Len(input) > 0 /\ centroids_count > Len(input)) =>
        /\ pc = "done"
        /\ km_result = Err("TooManyCentroids", centroids_count, Len(input))
        /\ ~sampled
        /\ iterations_count = 0

C2_Witness ==
    /\ pc = "done" /\ caller = "direct"
    /\ Len(input) = 2 /\ centroids_count = 3
    /\ km_result.tag = "TooManyCentroids"

\* C3: find_centroids on a non-empty input with k = input.len() returns Ok with
\* exactly the input, same values in the same order, and runs no iteration.
C3_TrivialCaseReturnsInput ==
    (pc # "idle" /\ Len(input) > 0 /\ centroids_count = Len(input)) =>
        /\ pc = "done"
        /\ km_result = Ok(input)
        /\ iterations_count = 0
        /\ ~sampled /\ ~distance_called /\ ~mean_called

C3_Witness ==
    /\ pc = "done" /\ caller = "direct"
    /\ Len(input) = 3 /\ centroids_count = 3
    /\ input[1] # input[2] /\ to_lab(ColorRGB(0, 0, 2)) = input[1]
    /\ km_result.tag = "Ok"

\* C4: every Ok result of find_centroids has exactly k centroids; in every pass
\* of the loop the centroid list has k entries and the clusters have k buckets.
C4_ExactlyKCentroids ==
    /\ (pc = "done" /\ km_result.tag = "Ok") => Len(km_result.value) = centroids_count
    /\ (pc = "loop") => Len(centroids) = centroids_count
    /\ (pc # "idle" /\ iterations_count >= 1 /\ km_result.tag # "panic") =>
            /\ Len(centroids) = centroids_count
            /\ Len(clusters) = centroids_count

C4_Witness ==
    /\ pc = "done" /\ km_result.tag = "Ok"
    /\ iterations_count >= 2
    /\ centroids_count = 2 /\ Len(km_result.value) = 2 /\ Len(clusters) = 2

\* ------------------------------------------------------------------------
\* Properties of PaletteRGB
\* ------------------------------------------------------------------------
NoDuplicates(p) == \A i, j \in 1..Len(p) : i # j => p[i] # p[j]

\* C5: for every palette P, try_reduce(|P|) returns Ok with P unchanged (same
\* entries, same order) and does not call the centroid finder.
C5_ReduceToOwnSizeIsIdentity ==
    (pal_op = "try_reduce" /\ target_colors_count = Len(self_at_call)) =>
        /\ pal_result = Ok(self_at_call)
        /\ palette = self_at_call
        /\ ~fc_invoked
        /\ pc = "idle" /\ caller = "none"

C5_Witness ==
    /\ pal_op = "try_reduce"
    /\ Len(self_at_call) = 3 /\ target_colors_count = 3
    /\ self_at_call[1] = ColorRGB(0, 0, 2) /\ self_at_call[2] = ColorRGB(1, 0, 0)
    /\ pal_result.tag = "Ok"

\* C6: for every palette P and every k > |P|, try_reduce(k) returns
\* NotEnoughColors{expected: k, actual: |P|} and the centroid finder is not called.
C6_NotEnoughColors ==
    (pal_op = "try_reduce" /\ target_colors_count > Len(self_at_call)) =>
        /\ pal_result = Err("NotEnoughColors", target_colors_count, Len(self_at_call))
        /\ ~fc_invoked
        /\ pc = "idle" /\ caller = "none"

C6_Witness ==
    /\ pal_op = "try_reduce"
    /\ Len(self_at_call) = 3 /\ target_colors_count = 4
    /\ pal_result.tag = "NotEnoughColors"

C8_TryReduceDoesNotPanic ==
    (pal_op = "try_reduce") =>
        /\ km_result.tag # "panic"
        /\ pal_result.tag \in {"none", "Ok", "NotEnoughColors", "ConvertionErrot"}

\* C9: the palette is duplicate-free in every reachable state: after any
\* sequence of constructors and operations no two entries are the same colour.
C9_PaletteDuplicateFree == NoDuplicates(palette)

\* C10: two palettes built from the same set of colours have the same entry
\* sequence, whatever the order of supply and the iteration order of the hash set.
C10_OrderDeterministic ==
    (Range(palette) = Range(other)) => palette = other

\* the entries are in non-decreasing lightness
IsLightnessOrdered(p) == \A i \in 1..(Len(p) - 1) : ColorCmpLessEq(p[i], p[i + 1])

\* C11: after A.combine(B), for duplicate-free A and B, A is a palette built from
\* the union of the colours of A and B: every colour of A or B appears exactly
\* once, no other colour appears, and the entries are in lightness order.
C11_CombineIsUnion ==
    (/\ pal_op \in {"combine", "with_black_and_white"}
     /\ NoDuplicates(self_at_call)
     /\ NoDuplicates(other_at_call)) =>
        /\ Range(palette) = Range(self_at_call) \cup Range(other_at_call)
        /\ NoDuplicates(palette)
        /\ IsLightnessOrdered(palette)
        /\ palette \in FromHashSet(Range(self_at_call) \cup Range(other_at_call))

\* ------------------------------------------------------------------------
\* Properties of the image processing
\* ------------------------------------------------------------------------

\* C12: for every image and every non-empty palette, every pixel of the output
\* of thresholding (RGB or Lab variant) is an entry of the palette.
C12_ThresholdedPixelInPalette ==
    (/\ ip_pc = "done"
     /\ algorithm \in {"ThresholdingRgb", "ThresholdingLab"}
     /\ Len(ip_palette) > 0) =>
        /\ ip_result.tag = "Ok"
        /\ \A yy \in 1..ip_result.value.height : \A xx \in 1..ip_result.value.width :
                ip_result.value.pixels[yy][xx] \in Range(ip_palette)

C12_Witness ==
    /\ ip_pc = "done"
    /\ algorithm = "ThresholdingLab"
    /\ ip_palette \in black_and_white
    /\ source_image.width = 2 /\ source_image.height = 2
    /\ source_image.pixels[1][1] # source_image.pixels[2][2]
    /\ ip_result.tag = "Ok"
    /\ ip_result.value.pixels[1][1] = Black

\* C13: for every image and every non-empty palette, a cell of the diffusion
\* matrix that has been visited as top-left holds a palette colour from then on
\* (no later step writes to it), and every pixel of the Floyd-Steinberg output is
\* an entry of the palette.
C13_DiffusedPixelInPalette ==
    (algorithm = "FloydSteinbergRgb" /\ Len(ip_palette) > 0) =>
        /\ (ip_pc \in {"fs_loop", "done"}) =>
                \A yy \in 1..Len(rgb_matrix) : \A xx \in 1..Len(rgb_matrix[yy]) :
                    (yy - 1 < fs_y \/ (yy - 1 = fs_y /\ xx - 1 < fs_x)) =>
                        rgb_matrix[yy][xx] \in Range(to_srgb(ip_palette))
        /\ (ip_pc = "done") =>
                /\ ip_result.tag = "Ok"
                /\ \A yy \in 1..ip_result.value.height : \A xx \in 1..ip_result.value.width :
                        ip_result.value.pixels[yy][xx] \in Range(ip_palette)

C13_Witness ==
    /\ ip_pc = "done"
    /\ algorithm = "FloydSteinbergRgb"
    /\ ip_palette \in black_and_white
    /\ source_image.width = 2 /\ source_image.height = 2
    /\ ip_result.tag = "Ok"
    /\ ip_result.value.pixels[1][1] # ip_result.value.pixels[1][2]
    /\ ip_result.value.pixels[1][1] # ip_result.value.pixels[2][1]

\* C14: for each algorithm of ImageProcessor (thresholding RGB, thresholding
\* Lab, Floyd-Steinberg) the image that run returns has the width and the height
\* of the source image, and that many rows and columns of pixels.
C14_DimensionsPreserved ==
    (ip_pc = "done" /\ ip_result.tag = "Ok") =>
        /\ ip_result.value.width = source_image.width
        /\ ip_result.value.height = source_image.height
        /\ Len(ip_result.value.pixels) = source_image.height
        /\ \A yy \in 1..Len(ip_result.value.pixels) :
                Len(ip_result.value.pixels[yy]) = source_image.width

C14_Witness ==
    /\ ip_pc = "done"
    /\ algorithm = "FloydSteinbergRgb"
    /\ source_image.width = 2 /\ source_image.height = 1
    /\ ip_result.tag = "Ok"
    /\ ip_result.value.width = 2 /\ ip_result.value.height = 1

\* ------------------------------------------------------------------------
\* Properties of the kernel traversal
\* ------------------------------------------------------------------------
\* <<x, y>> comes before <<x', y'>> in row-major order
RowMajorBefore(a, b) == a[2] < b[2] \/ (a[2] = b[2] /\ a[1] < b[1])

\* C15: on a width x height grid (both >= 2) the traversal calls the step
\* function exactly width * height times, every cell is the top-left slot of
\* exactly one call, and the calls are in row-major order: an earlier call's
\* cell has a smaller y, or the same y and a smaller x.
C15_RowMajorExactlyOnce ==
    /\ \A i, j \in 1..Len(calls) : i < j <=> RowMajorBefore(calls[i], calls[j])
    /\ (kt_pc = "done" /\ kt_result.tag = "Ok") =>
            /\ Len(matrix) >= 2 /\ matrix_width(matrix) >= 2
            /\ Len(calls) = matrix_width(matrix) * Len(matrix)
            /\ \A cy \in 0..(Len(matrix) - 1) : \A cx \in 0..(matrix_width(matrix) - 1) :
                    Cardinality({i \in 1..Len(calls) : calls[i] = <<cx, cy>>}) = 1

C15_Witness ==
    /\ kt_pc = "done" /\ kt_result.tag = "Ok"
    /\ Len(matrix) = 2 /\ matrix_width(matrix) = 3
    /\ Len(calls) = 6
    /\ calls[3] = <<2, 0>> /\ calls[4] = <<0, 1>>

\* the cells of the 2x2 window whose top-left is column kx, row ky
Window(kx, ky) == {Cell(ky, kx), Cell(ky, kx + 1), Cell(ky + 1, kx), Cell(ky + 1, kx + 1)}

\* C16: a traversal step at (x, y) changes no grid cell other than (x, y),
\* (x+1, y), (x, y+1), (x+1, y+1), and the grid keeps its shape: what is written
\* through a slot of the last column or of the last row reaches no grid cell.
C16_StepFrame ==
    [][(kt_pc = "loop" /\ kt_pc' = "loop") =>
            /\ Len(matrix') = Len(matrix)
            /\ \A yy \in 1..Len(matrix) :
                    /\ Len(matrix'[yy]) = Len(matrix[yy])
                    /\ \A xx \in 1..Len(matrix[yy]) :
                            Cell(yy - 1, xx - 1) \notin Window(kernel_x, kernel_y) =>
                                matrix'[yy][xx] = matrix[yy][xx]]_vars

C16_Witness ==
    /\ kt_pc = "loop"
    /\ processing.kind = "add_one"
    /\ Len(matrix) = 3 /\ matrix_width(matrix) = 3
    /\ matrix_at_call[1][1] = 7
    /\ calls # <<>> /\ calls[Len(calls)] = <<2, 0>>
    /\ slots[2] = DummyTr /\ dummy_tr = 1
    /\ matrix[2][1] = 8
    /\ matrix[1][3] = 9

\* C17: at every step the four slots tl, tr, bl, br refer to four pairwise
\* distinct storage locations (grid cells or scratch values), also in the last
\* row, in the last column and in the bottom-right corner.
C17_SlotsDistinct ==
    slots # <<>> =>
        /\ Len(slots) = 4
        /\ \A i, j \in 1..4 : i # j => slots[i] # slots[j]

C17_Witness ==
    /\ kt_pc = "done" /\ kt_result.tag = "Ok"
    /\ calls[Len(calls)] = <<2, 2>>
    /\ slots = <<Cell(2, 2), DummyTr, DummyBl, DummyBr>>

\* C18: on a grid with fewer than 2 rows or fewer than 2 columns (1x5, 5x1,
\* empty) the call fails: it panics, the step function is called for no cell
\* and no grid cell is changed.
C18_SmallGridFails ==
    (kt_pc # "none" /\ (Len(matrix_at_call) < 2 \/ matrix_width(matrix_at_call) < 2)) =>
        /\ kt_pc = "done"
        /\ kt_result = Panic
        /\ calls = <<>>
        /\ matrix = matrix_at_call

C18_Witness ==
    /\ kt_pc = "done"
    /\ Len(matrix_at_call) = 1 /\ matrix_width(matrix_at_call) = 3
    /\ kt_result = Panic

\* C19: when the step function adds 1 to each of its four slots and the grid
\* starts all zero, after the traversal of a width x height grid (both >= 2) the
\* cell at column x, row y holds (1 + [x > 0]) * (1 + [y > 0]); the 2x2 grid
\* ends as [[1, 2], [2, 4]].
C19_AddOneCountsWindows ==
    (/\ kt_pc = "done" /\ kt_result.tag = "Ok"
     /\ processing.kind = "add_one"
     /\ \A yy \in 1..Len(matrix_at_call) : \A xx \in 1..Len(matrix_at_call[yy]) :
            matrix_at_call[yy][xx] = 0) =>
        /\ Len(matrix) = Len(matrix_at_call)
        /\ \A yy \in 1..Len(matrix) :
                /\ Len(matrix[yy]) = Len(matrix_at_call[yy])
                /\ \A xx \in 1..Len(matrix[yy]) :
                        matrix[yy][xx] = (IF xx > 1 THEN 2 ELSE 1) * (IF yy > 1 THEN 2 ELSE 1)

C19_Witness ==
    /\ kt_pc = "done" /\ kt_result.tag = "Ok"
    /\ processing.kind = "add_one"
    /\ matrix_at_call = <<<<0, 0>>, <<0, 0>>>>
    /\ matrix = <<<<1, 2>>, <<2, 4>>>>

\* ------------------------------------------------------------------------
\* Properties of the image processing: small images
\* ------------------------------------------------------------------------

\* C20: Floyd-Steinberg dithering of an image whose width or height is below 2
\* is rejected: the call fails and returns no image (stated for a non-empty
\* image and a non-empty palette, where nothing else can make the call fail).
C20_SmallImageRejected ==
    (/\ algorithm = "FloydSteinbergRgb"
     /\ ip_pc = "done"
     /\ Len(ip_palette) > 0
     /\ source_image.width >= 1 /\ source_image.height >= 1
     /\ (source_image.width < 2 \/ source_image.height < 2)) =>
        ip_result.tag # "Ok"

\* ------------------------------------------------------------------------
\* Properties of the nearest-colour search
\* ------------------------------------------------------------------------
\* entry idx is at minimum distance and every entry before it is strictly farther
IsFirstMinimum(dists, idx) ==
    /\ idx \in 1..Len(dists)
    /\ \A j \in 1..Len(dists) : dists[idx] <= dists[j]
    /\ \A j \in 1..(idx - 1) : dists[j] > dists[idx]

\* C21: the nearest-colour search over a non-empty palette returns the entry at
\* minimum distance from the query colour, the one of lowest index when several
\* are equally close; each pixel of the thresholding output is that entry for
\* the input pixel at the same position, whatever the other pixels are.
C21_NearestEntryFirstOnTies ==
    (/\ ip_pc = "done"
     /\ algorithm \in {"ThresholdingRgb", "ThresholdingLab"}
     /\ Len(ip_palette) > 0) =>
        /\ ip_result.tag = "Ok"
        /\ \A yy \in 1..source_image.height : \A xx \in 1..source_image.width :
                \E idx \in 1..Len(ip_palette) :
                    /\ ip_result.value.pixels[yy][xx] = ip_palette[idx]
                    /\ IsFirstMinimum(
                            [i \in 1..Len(ip_palette) |->
                                IF algorithm = "ThresholdingRgb"
                                THEN dist_squared_by_rgb(source_image.pixels[yy][xx], ip_palette[i])
                                ELSE dist_by_lab(source_image.pixels[yy][xx], ip_palette[i])],
                            idx)

\* the grey pixel is equally far from blue, red and green: blue, the first
\* entry, is returned; the other pixel of the row gets another entry
C21_Witness ==
    /\ ip_pc = "done"
    /\ algorithm = "ThresholdingRgb"
    /\ ip_palette = <<Blue, Red, Green>>
    /\ source_image.width = 2 /\ source_image.height = 1
    /\ source_image.pixels[1] = <<ColorRGB(100, 100, 100), ColorRGB(200, 30, 30)>>
    /\ ip_result.tag = "Ok"
    /\ ip_result.value.pixels[1] = <<Blue, Red>>

\* ------------------------------------------------------------------------
\* Properties of one diffusion step
\* ------------------------------------------------------------------------
\* what a step that took matrix m to matrix n added to the cell at column cx,
\* row cy (0-based); outside the w x h grid nothing is added
AddedTo(m, n, cx, cy, w, h) ==
    IF cx < w /\ cy < h THEN srgb_sub(n[cy + 1][cx + 1], m[cy + 1][cx + 1]) ELSE <<0, 0, 0>>

\* amount is error * weight / 18, each channel rounded down to the fixed-point grid
IsWeightedError(amount, error, weight) ==
    \A ch \in 1..3 :
        /\ 18 * amount[ch] <= weight * error[ch]
        /\ weight * error[ch] < 18 * amount[ch] + 18

\* the sum of what the step added to its three neighbours
AddedSum(m, n, x, y, w, h) ==
    srgb_add(srgb_add(AddedTo(m, n, x + 1, y, w, h), AddedTo(m, n, x, y + 1, w, h)),
             AddedTo(m, n, x + 1, y + 1, w, h))

\* the step at column x, row y: the top-left cell becomes the palette entry
\* nearest to its value, the in-grid neighbours get 9/18, 5/18 and 4/18 of the error
DiffusionStep(m, n, x, y, w, h, p) ==
    LET v == m[y + 1][x + 1]
        c == n[y + 1][x + 1]
        e == srgb_sub(v, c)
    IN  /\ \E idx \in 1..Len(p) :
                /\ c = p[idx]
                /\ IsFirstMinimum([i \in 1..Len(p) |-> srgb_distance_squared(v, p[i])], idx)
        /\ (x + 1 < w) => IsWeightedError(AddedTo(m, n, x + 1, y, w, h), e, 9)
        /\ (y + 1 < h) => IsWeightedError(AddedTo(m, n, x, y + 1, w, h), e, 5)
        /\ (x + 1 < w /\ y + 1 < h) => IsWeightedError(AddedTo(m, n, x + 1, y + 1, w, h), e, 4)
        /\ err_weights[1] + err_weights[2] + err_weights[3] = 18

\* at an edge step the neighbours get, in sum, at most |e| per channel
EdgeStepAddsAtMostError(m, n, x, y, w, h) ==
    LET e == srgb_sub(m[y + 1][x + 1], n[y + 1][x + 1])
    IN  ~(x + 1 < w /\ y + 1 < h) =>
            \A ch \in 1..3 : Abs(AddedSum(m, n, x, y, w, h)[ch]) <= Abs(e[ch])

\* at an interior step the neighbours get, in sum, exactly e
InteriorStepAddsError(m, n, x, y, w, h) ==
    (x + 1 < w /\ y + 1 < h) =>
        AddedSum(m, n, x, y, w, h) = srgb_sub(m[y + 1][x + 1], n[y + 1][x + 1])

\* at an interior step the neighbours get, in sum, e less the roundings of the
\* three products (each rounding is below one grid unit)
InteriorStepAddsRoundedError(m, n, x, y, w, h) ==
    LET e == srgb_sub(m[y + 1][x + 1], n[y + 1][x + 1])
        added == AddedSum(m, n, x, y, w, h)
    IN  (x + 1 < w /\ y + 1 < h) =>
            \A ch \in 1..3 : e[ch] - 2 <= added[ch] /\ added[ch] <= e[ch]

\* a pass of the diffusion loop that did not panic
IsFsStep == ip_pc = "fs_loop" /\ ip_pc' = "fs_loop" /\ <<fs_x', fs_y'>> # <<fs_x, fs_y>>

\* C22: at each diffusion step with top-left value v the chosen colour c is the
\* palette entry nearest to v, the top-left cell becomes c and, with e = v - c, the
\* in-grid neighbours become tr + e*9/18, bl + e*5/18, br + e*4/18 per channel;
\* the weights sum to 1, so at an interior step the amounts added to the three
\* neighbours sum to e exactly, and at an edge step to at most |e|.
C22_DiffusionStepKeepsError ==
    [][IsFsStep =>
        /\ DiffusionStep(rgb_matrix, rgb_matrix', fs_x, fs_y, source_image.width,
                         source_image.height, to_srgb(ip_palette))
        /\ EdgeStepAddsAtMostError(rgb_matrix, rgb_matrix', fs_x, fs_y, source_image.width,
                                   source_image.height)
        /\ InteriorStepAddsError(rgb_matrix, rgb_matrix', fs_x, fs_y, source_image.width,
                                 source_image.height)]_vars

\* C22, amended: as above, but each product e * weight is rounded, so at an
\* interior step the amounts added sum to e only up to the three roundings
\* (short of e by less than three grid units per channel).
C22_DiffusionStepKeepsRoundedError ==
    [][IsFsStep =>
        /\ DiffusionStep(rgb_matrix, rgb_matrix', fs_x, fs_y, source_image.width,
                         source_image.height, to_srgb(ip_palette))
        /\ EdgeStepAddsAtMostError(rgb_matrix, rgb_matrix', fs_x, fs_y, source_image.width,
                                   source_image.height)
        /\ InteriorStepAddsRoundedError(rgb_matrix, rgb_matrix', fs_x, fs_y, source_image.width,
                                        source_image.height)]_vars

\* the grey 3x2 image under grayscale(3), after the interior step at (1, 0):
\* v = 1557, c = 2286, e = -729, and -365, -203, -162 were added (sum -730)
C22_Witness ==
    /\ ip_pc = "fs_loop"
    /\ ip_palette = grayscale(3)
    /\ source_image.width = 3 /\ source_image.height = 2
    /\ fs_x = 2 /\ fs_y = 0
    /\ rgb_matrix[1][2] = <<2286, 2286, 2286>>
    /\ rgb_matrix[1][3] = <<1435, 1435, 1435>>
    /\ rgb_matrix[2][2] = <<1489, 1489, 1489>>
    /\ rgb_matrix[2][3] = <<1638, 1638, 1638>>

\* ------------------------------------------------------------------------
\* Properties of the iterations of find_centroids
\* ------------------------------------------------------------------------
\* the centroids of slot i before and after the pass are closer than the threshold
PairBelow(last, recent, i, distance_threshold) ==
    /\ CallDistance(distance_measure, last[i], recent[i]) # DistNaN
    /\ CallDistance(distance_measure, last[i], recent[i]) < distance_threshold

\* every old/new pair of the last pass, slot by slot, is closer than the threshold
AllPairsBelow(distance_threshold) ==
    /\ Len(last_centroids) = Len(centroids)
    /\ \A i \in 1..Len(centroids) : PairBelow(last_centroids, centroids, i, distance_threshold)

\* a pass of the loop has run to its convergence check
PassCompleted == pc # "idle" /\ iterations_count >= 1 /\ km_result.tag # "panic"

\* C23: find_centroids (k < items.len()) returns Ok with the freshly recomputed
\* centroids at the first pass in which every old/new centroid pair, compared
\* slot by slot, is strictly below the tight threshold; when a pair is at or
\* above it and the cap is not exceeded, the loop goes on with another pass.
C23_ReturnsAtFirstTightPass ==
    PassCompleted =>
        /\ centroids = [i \in 1..Len(clusters) |-> CallMean(calculate_mean, clusters[i])]
        /\ AllPairsBelow(CONVERGE_THRESHOLD) =>
                /\ pc = "done"
                /\ km_result = Ok(centroids)
        /\ (~AllPairsBelow(CONVERGE_THRESHOLD) /\ iterations_count <= ITERATION_MAX_COUNT) =>
                /\ pc = "loop"
                /\ km_result = NoResult
                /\ ENABLED Iterate

\* the first pass moved a centroid, the second did not: Ok after two passes
C23_Witness ==
    /\ pc = "done" /\ caller = "direct"
    /\ km_result.tag = "Ok"
    /\ iterations_count = 2
    /\ centroids_count = 2 /\ Len(input) = 3
    /\ km_result.value = centroids
    /\ centroids[1] # centroids[2]

\* what the pass over the cap returns when the tight check has failed
CapPassResult ==
    IF AllPairsBelow(CONVERGE_ENOUGH_THRESHOLD) THEN Ok(centroids)
    ELSE Err("TooManyIterations", 0, 0)

\* the rounds are capped, and the round over the cap decides by the relaxed threshold
CappedRounds ==
    /\ iterations_count <= ITERATION_MAX_COUNT + 1
    /\ (PassCompleted /\ iterations_count > ITERATION_MAX_COUNT) =>
            /\ iterations_count = ITERATION_MAX_COUNT + 1
            /\ pc = "done"
            /\ ~AllPairsBelow(CONVERGE_THRESHOLD) => km_result = CapPassResult
    /\ (km_result.tag = "TooManyIterations") =>
            /\ pc = "done"
            /\ iterations_count = ITERATION_MAX_COUNT + 1
            /\ ~AllPairsBelow(CONVERGE_THRESHOLD)
            /\ ~AllPairsBelow(CONVERGE_ENOUGH_THRESHOLD)

\* C24: find_centroids always terminates and never runs more than
\* ITERATION_MAX_COUNT + 1 assignment rounds; in the first round whose count is
\* over the cap, when the tight check fails, the same old/new pairs are compared
\* against the relaxed threshold: Ok if all are below it, TooManyIterations
\* otherwise; TooManyIterations is returned in no other situation.
C24_TerminatesWithinCap ==
    /\ []CappedRounds
    /\ (pc = "loop") ~> (pc = "done")

\* three angles on the circle of period 3.6 whose clusters alternate: round 121
\* fails both checks
C24_Witness ==
    /\ pc = "done"
    /\ iterations_count = ITERATION_MAX_COUNT + 1
    /\ distance_measure = CircularDistance(360)
    /\ input = <<F32(0), F32(120), F32(300)>>
    /\ centroids_count = 2
    /\ km_result.tag = "TooManyIterations"

\* ------------------------------------------------------------------------
\* Properties of the assignment
\* ------------------------------------------------------------------------
RECURSIVE SumOfLengths(_)
SumOfLengths(cl) == IF cl = <<>> THEN 0 ELSE Len(Head(cl)) + SumOfLengths(Tail(cl))

\* centroid idx of cs is at minimum distance from item, and no centroid before it is
ClosestFirst(item, cs, idx) ==
    IsFirstMinimum([i \in 1..Len(cs) |-> CallDistance(distance_measure, item, cs[i])], idx)

\* C25: in every assignment round each input item is placed in exactly one
\* cluster bucket (the buckets partition the items and their sizes sum to
\* items.len()): the bucket of the centroid at minimum distance from the item,
\* the one of lowest index when several are equally close. After a round
\* last_centroids holds the centroids the round assigned to.
C25_AssignmentPartitionsByNearest ==
    PassCompleted =>
        /\ Len(clusters) = Len(last_centroids)
        /\ SumOfLengths(clusters) = Len(input)
        /\ \A idx \in 1..Len(clusters) :
                clusters[idx] = SelectSeq(input, LAMBDA item : ClosestFirst(item, last_centroids, idx))

\* the angle 0 is equally far from the centroids 1.0 and 0.2 on the circle of
\* period 1.2 and goes to the first; 0.4 goes to the second
C25_Witness ==
    /\ PassCompleted
    /\ distance_measure = CircularDistance(120)
    /\ input = <<F32(0), F32(40), F32(100)>>
    /\ last_centroids = <<F32(100), F32(20)>>
    /\ clusters = <<<<F32(0), F32(100)>>, <<F32(40)>>>>

\* ------------------------------------------------------------------------
\* Properties of the multithreaded assignment
\* ------------------------------------------------------------------------
\* the ranges are contiguous and disjoint and cover every index of the input once
RangesPartitionInput ==
    /\ Len(ranges) = workers_count
    /\ ranges[1][1] = 0
    /\ ranges[workers_count][2] = Len(mt_input)
    /\ \A w \in 1..workers_count : ranges[w][1] <= ranges[w][2]
    /\ \A w \in 1..(workers_count - 1) : ranges[w][2] = ranges[w + 1][1]
    /\ \A i \in 0..(Len(mt_input) - 1) :
            Cardinality({w \in 1..workers_count : ranges[w][1] <= i /\ i < ranges[w][2]}) = 1

\* what the sequential assignment does with the whole input
SequentialAssignment ==
    IF AssignmentPanics(mt_input, mt_centroids, mt_distance_measure)
    THEN Panic
    ELSE Ok(get_filled_batch_cluster(mt_input, mt_centroids, mt_distance_measure))

\* the merge is over the results of all the workers, each of which has finished
MergedAfterAllFinished ==
    (mt_pc = "done" /\ mt_result.tag = "ok") =>
        /\ Len(all_clusters) = workers_count
        /\ \A w \in 1..workers_count : worker_pc[w] = "finished" /\ all_clusters[w] = partial[w]

\* a worker that comes to its end has written its own partial result only
WorkerWritesOwnResultOnly ==
    \A w \in 1..workers_count :
        (worker_pc[w] = "running" /\ worker_pc'[w] # "running") =>
            /\ mt_input' = mt_input
            /\ mt_centroids' = mt_centroids
            /\ all_clusters' = all_clusters
            /\ \A v \in (1..workers_count) \ {w} : partial'[v] = partial[v] /\ worker_pc'[v] = worker_pc[v]

IsNaNCentroid(c) == c.nan

\* C27: when a cluster receives no member in an assignment round,
\* find_centroids applies an explicit policy for that slot: the mean is never
\* taken of an empty member list (no centroid of an empty cluster is the
\* not-a-number mean of nothing), and the call still ends with Ok or a typed
\* error (it does not panic on such a centroid).
C27_EmptyClusterHasPolicy ==
    /\ PassCompleted =>
            \A i \in 1..Len(clusters) : clusters[i] = <<>> => ~IsNaNCentroid(centroids[i])
    /\ (pc = "done" /\ km_result.tag = "panic") =>
            \A i \in 1..Len(centroids) : ~IsNaNCentroid(centroids[i])

\* ------------------------------------------------------------------------
\* Properties of the scratch values
\* ------------------------------------------------------------------------
\* the slots of the step about to be made at (kernel_x, kernel_y)
NextSlots == kernel_slots(kernel_x, kernel_y, matrix_width(matrix), Len(matrix))

\* C28: writes to a scratch slot are discarded: what the step function writes
\* into a scratch slot at one edge step is not seen at a later step, i.e. at
\* every step in the last column or in the last row each scratch-backed slot
\* handed to the step function holds the default value (T::default(), 0).
C28_ScratchSlotsHoldDefault ==
    (kt_pc = "loop" /\ kernel_y < Len(matrix)) =>
        \A i \in 2..4 :
            NextSlots[i][1] # "cell" =>
                ReadLoc(Store(matrix, dummy_tr, dummy_bl, dummy_br), NextSlots[i]) = 0

\* ------------------------------------------------------------------------
\* Properties of an empty palette
\* ------------------------------------------------------------------------
\* C29: ImageProcessor::run with an empty palette on a non-empty image does
\* not abort, whatever the algorithm: the search of the closest colour among
\* zero palette entries gives a defined result or a typed error.
C29_EmptyPaletteDoesNotAbort ==
    (/\ ip_pc = "done"
     /\ ip_palette = <<>>
     /\ source_image.width > 0
     /\ source_image.height > 0) =>
        ip_result.tag # "panic"

\* ------------------------------------------------------------------------
\* Properties of an image made of palette colours
\* ------------------------------------------------------------------------
\* every pixel of the source image is an entry of the duplicate-free palette
IsPaletteImage ==
    /\ NoDuplicates(ip_palette)
    /\ \A yy \in 1..source_image.height : \A xx \in 1..source_image.width :
            source_image.pixels[yy][xx] \in Range(ip_palette)

\* the algorithm of the processor applied to an image with the processor's palette
RunOn(img) ==
    IF ClosestPanics(img, ip_palette) THEN Panic
    ELSE IF algorithm = "ThresholdingRgb" THEN Ok(thresholding_rgb(img, ip_palette))
    ELSE IF algorithm = "ThresholdingLab" THEN Ok(thresholding_lab(img, ip_palette))
    ELSE Ok(dithering_floyd_steinberg_rgb(img, ip_palette))

\* C30: the diffusion and the thresholding are the identity on an image whose
\* every pixel is an entry of the duplicate-free palette: every quantisation
\* error is zero, so no diffusion step changes a cell of the matrix (neither
\* the pixel nor a neighbour), the output equals the input, and applying the
\* algorithm to the output again gives the same image.
C30_PaletteImageIsFixedPoint ==
    /\ []((IsPaletteImage /\ ip_pc = "done") =>
            /\ ip_result = Ok(source_image)
            /\ RunOn(ip_result.value) = ip_result)
    /\ [][(IsPaletteImage /\ IsFsStep) => rgb_matrix' = rgb_matrix]_vars

\* a 3x2 image of the two palette colours went through the diffusion unchanged
C30_Witness ==
    /\ ip_pc = "done"
    /\ algorithm = "FloydSteinbergRgb"
    /\ IsPaletteImage
    /\ Len(ip_palette) = 2
    /\ source_image.width = 3 /\ source_image.height = 2
    /\ source_image.pixels[1] = <<ColorRGB(100, 100, 100), ColorRGB(200, 30, 30), ColorRGB(100, 100, 100)>>
    /\ source_image.pixels[2] = <<ColorRGB(200, 30, 30), ColorRGB(200, 30, 30), ColorRGB(100, 100, 100)>>
    /\ ip_result = Ok(source_image)

====
